---------------------------- MODULE Spec2Model ----------------------------
(***************************************************************************)
(* Secondary-supers table of HotSpot's Klass (src/hotspot/share/oops/      *)
(* klass.cpp, klass.inline.hpp): seed codec, slot index, table packer,     *)
(* randomized table search, materialisation of the persisted storage,      *)
(* publication by set_secondary_supers and the lookup path.               *)
(*                                                                         *)
(* A uint32_t is the pair <<hi, lo>> of its 16-bit halves (TLC's integers  *)
(* are 32-bit signed); all arithmetic on such pairs wraps modulo 2^32.     *)
(***************************************************************************)
EXTENDS Integers, Sequences, FiniteSets, TLC

(***************************************************************************)
(* 32-bit unsigned arithmetic                                              *)
(***************************************************************************)
Pow2(n) == 2 ^ n

RECURSIVE And16(_, _)
And16(a, b) ==
  IF a = 0 \/ b = 0 THEN 0
  ELSE (a % 2) * (b % 2) + 2 * And16(a \div 2, b \div 2)

RECURSIVE Xor16(_, _)
Xor16(a, b) ==
  IF a = 0 THEN b
  ELSE IF b = 0 THEN a
  ELSE ((a + b) % 2) + 2 * Xor16(a \div 2, b \div 2)

Or16(a, b) == a + b - And16(a, b)

U32(hi, lo) == <<hi, lo>>
U32Zero == <<0, 0>>
U32Ones == <<65535, 65535>>
U32OfNat(n) == <<n \div 65536, n % 65536>>
U32And(x, y) == <<And16(x[1], y[1]), And16(x[2], y[2])>>
U32Or(x, y) == <<Or16(x[1], y[1]), Or16(x[2], y[2])>>
U32Xor(x, y) == <<Xor16(x[1], y[1]), Xor16(x[2], y[2])>>
U32Not(x) == <<65535 - x[1], 65535 - x[2]>>

\* x >> s and x << s for 0 <= s < 32, as C computes them on a uint32_t
U32Shr(x, s) ==
  IF s >= 16 THEN <<0, x[1] \div Pow2(s - 16)>>
  ELSE <<x[1] \div Pow2(s), (x[2] \div Pow2(s)) + (x[1] % Pow2(s)) * Pow2(16 - s)>>

U32Shl(x, s) ==
  IF s >= 16 THEN <<(x[2] % Pow2(32 - s)) * Pow2(s - 16), 0>>
  ELSE <<(x[1] % Pow2(16 - s)) * Pow2(s) + (x[2] \div Pow2(16 - s)),
         (x[2] % Pow2(16 - s)) * Pow2(s)>>

\* x - n modulo 2^32, for a small natural n
U32SubNat(x, n) ==
  LET nh == n \div 65536
      nl == n % 65536
      lo == x[2] - nl
      borrow == IF lo < 0 THEN 1 ELSE 0
  IN  <<(x[1] - nh - borrow) % 65536, lo % 65536>>

\* x % n for a natural n > 0, n < 2^15
U32ModNat(x, n) == ((x[1] % n) * (65536 % n) + (x[2] % n)) % n

\* the low bits of x as a natural, for a mask below 2^16
U32LowNat(x, mask) == And16(x[2], mask)

\* the four bytes of x, least significant first
Bytes(x) == <<x[2] % 256, x[2] \div 256, x[1] % 256, x[1] \div 256>>

ByteAt(d, j) == IF j \in 1..4 THEN d[j] ELSE 0

MulColumn(a, b, i) ==
  ByteAt(a, 1) * ByteAt(b, i) + ByteAt(a, 2) * ByteAt(b, i - 1)
    + ByteAt(a, 3) * ByteAt(b, i - 2) + ByteAt(a, 4) * ByteAt(b, i - 3)

\* the bytes i..8 of the product of a and b, least significant first
RECURSIVE MulBytes(_, _, _, _)
MulBytes(a, b, i, carry) ==
  IF i > 8 THEN <<>>
  ELSE <<(MulColumn(a, b, i) + carry) % 256>>
         \o MulBytes(a, b, i + 1, (MulColumn(a, b, i) + carry) \div 256)

Product64(d) ==
  [U |-> <<d[8] * 256 + d[7], d[6] * 256 + d[5]>>,
   V |-> <<d[4] * 256 + d[3], d[2] * 256 + d[1]>>]

\* fullmul32(U, V, x, y): the 64-bit product of x and y, U its high and V its
\* low 32 bits
fullmul32(x, y) == Product64(MulBytes(Bytes(x), Bytes(y), 1, 0))

\* ror32(x, r): x rotated right by r modulo 32 bits
ror32(x, r) ==
  LET n == r[2] % 32
      y == IF n >= 16 THEN <<x[2], x[1]>> ELSE x
      m == n % 16
  IN  <<(y[1] \div Pow2(m)) + (y[2] % Pow2(m)) * Pow2(16 - m),
        (y[2] \div Pow2(m)) + (y[1] % Pow2(m)) * Pow2(16 - m)>>

HashM == <<13177, 21717>>   \* 0x337954D5
HashA == <<43690, 43690>>   \* 0xAAAAAAAA

\* get_hash32 from L2 on: return V1 ^ L2
HashL2(m1, Q1) == U32Xor(m1.V, U32Xor(Q1, m1.U))

\* get_hash32 from the second fullmul32 on
HashL1(m0, L1) == HashL2(fullmul32(L1, HashM), ror32(U32Xor(m0.V, HashM), L1))

\* get_hash32 from Q0 on: m0 the product of L0 and M, Q0 == H0 * M
HashL0(m0, Q0) == HashL1(m0, U32Xor(Q0, m0.U))

get_hash32(x, y) ==
  HashL0(fullmul32(U32Xor(x, HashA), HashM), fullmul32(U32Xor(x, y), HashM).V)


(***************************************************************************)
(* State                                                                   *)
(***************************************************************************)
VARIABLES
  cfg,                    \* the VM flags and the build flavour, fixed per run
  super_chain,            \* ancestors of this from super() up that cannot be primary supers
  interfaces,             \* what compute_secondary_supers returns (NullList: nullptr)
  pc,                     \* where the class-initialising thread is
  failure,                \* the assertion or fault that ended the build, "none" otherwise
  primaries, secondaries, \* arguments of initialize_secondary_supers_table
  primary_seed, primary_table,  \* arguments of the second-level overload
  mode,                   \* -1 in the first-level search, 0 or 1 in the second-level one
  table_size, attempt, is_in_progress,
  seed, table, tail,      \* the trial of the current loop iteration
  best_seed, best_score, best_table, best_tail,
  ss_table, seed1, seed2, \* result of create_secondary_supers_table, arguments of set_secondary_supers
  secondary_supers, secondary_supers_seed,   \* the two published fields of this
  query,                  \* the last completed search_secondary_supers call: the class asked
                          \* for, the result, whether the call before asked for the same class
  reader,                 \* a thread running search_secondary_supers concurrently
  codec,                  \* the last compose_seed32 call made on its own
  call,                   \* a call of Klass::index or of pack_table made on its own
  reentries,              \* calls of initialize_supers made after the first one returned
  _subklass,              \* the _subklass field of the superclass of this
  _next_sibling,          \* the _next_sibling field of this and of each subclass of its superclass
  loader_alive,           \* is_loader_alive() of each of these classes
  thread                  \* the threads in append_to_sibling_list and in clean_subklass

inputs   == <<cfg, super_chain, interfaces>>
search   == <<primaries, secondaries, primary_seed, primary_table, mode, table_size,
              attempt, is_in_progress, seed, table, tail,
              best_seed, best_score, best_table, best_tail>>
created  == <<ss_table, seed1, seed2>>
fields   == <<secondary_supers, secondary_supers_seed>>
siblings == <<_subklass, _next_sibling, loader_alive, thread>>
vars     == <<inputs, pc, failure, search, created, fields, query, reader, codec, call, reentries, siblings>>

(***************************************************************************)
(* Flags                                                                   *)
(***************************************************************************)
UseSecondarySupersTable        == cfg.UseSecondarySupersTable
SecondarySupersTableSizingMode == cfg.SecondarySupersTableSizingMode
SecondarySupersTableMaxSize    == cfg.SecondarySupersTableMaxSize
SecondarySupersTableMinSize    == cfg.SecondarySupersTableMinSize
SecondarySupersMaxAttempts     == cfg.SecondarySupersMaxAttempts
UseNewCode                     == cfg.UseNewCode
UseNewCode2                    == cfg.UseNewCode2
UseNewCode4                    == cfg.UseNewCode4
\* a debug build (#ifdef ASSERT): assert() is compiled in and a failing one ends the VM
ASSERT                         == cfg.ASSERT

is_power_of_2_sizes_only == (SecondarySupersTableSizingMode % 2) = 1
mod_rounding_mode        == ((SecondarySupersTableSizingMode \div 8) % 2) = 1

(***************************************************************************)
(* Power-of-two helpers                                                    *)
(***************************************************************************)
is_power_of_2(n) == n > 0 /\ \E e \in 0..15 : n = Pow2(e)

RECURSIVE log2i(_)
log2i(n) == IF n <= 1 THEN 0 ELSE 1 + log2i(n \div 2)

log2i_exact(n) == log2i(n)

round_down_power_of_2(n) == Pow2(log2i(n))

round_up_power_of_2(n) == IF is_power_of_2(n) THEN n ELSE Pow2(log2i(n) + 1)

right_n_bits(n) == U32SubNat(U32Shl(<<0, 1>>, n), 1)

MIN2(a, b) == IF a < b THEN a ELSE b
MAX2(a, b) == IF a > b THEN a ELSE b

(***************************************************************************)
(* Seed codec (klass.inline.hpp). The operators with a first parameter max *)
(* compute for SecondarySupersTableMaxSize == max; the code's functions    *)
(* follow them.                                                            *)
(***************************************************************************)
SizeMask(max) == (max * 2) - 1

SizeShift(max) == log2i_exact(max) + 1

\* A composition that does not shift the mask field above the size field:
\* SeedCodecRoundTrip tells it from the code's.
ComposeSeed32Unshifted(max, h32, tsize) ==
  LET seed_mask  == U32Not(right_n_bits(2 * SizeShift(max)))
      table_mask == IF tsize > 0 THEN round_up_power_of_2(tsize) - 1 ELSE 0
  IN  U32Or(U32Or(U32And(h32, seed_mask), U32OfNat(table_mask)), U32OfNat(tsize))

ComposeSeed32(max, h32, tsize) ==
  LET seed_mask  == U32Not(right_n_bits(2 * SizeShift(max)))
      table_mask == IF tsize > 0 THEN round_up_power_of_2(tsize) - 1 ELSE 0
  IN  U32Or(U32Or(U32And(h32, seed_mask), U32Shl(U32OfNat(table_mask), SizeShift(max))),
            U32OfNat(tsize))

size_mask == SizeMask(SecondarySupersTableMaxSize)

size_shift == SizeShift(SecondarySupersTableMaxSize)

seed2size(s) == U32LowNat(U32Shr(s, 0 * size_shift), size_mask)

seed2mask(s) == U32LowNat(U32Shr(s, 1 * size_shift), size_mask)

compose_seed32(h32, tsize) == ComposeSeed32(SecondarySupersTableMaxSize, h32, tsize)

\* the asserts of compose_seed32: "none", or the first one that fails
compose_seed32_check(h32, tsize) ==
  LET s == compose_seed32(h32, tsize)
  IN  IF ~(tsize > 0 \/ h32 = U32Zero \/ h32 = U32Ones) THEN "compose_seed32: table_size"
      ELSE IF seed2size(s) # tsize THEN "compose_seed32: seed2size"
      ELSE IF seed2mask(s) # (IF tsize > 0 THEN round_up_power_of_2(tsize) - 1 ELSE 0)
           THEN "compose_seed32: seed2mask"
      ELSE "none"


(***************************************************************************)
(* Classes                                                                 *)
(***************************************************************************)
MaxChain      == 2   \* longest overflow part of the superclass chain
MaxInterfaces == 6   \* longest list compute_secondary_supers returns
NumSeeds      == 3   \* how many different values get_next_hash can return

NullKlass == 0                               \* nullptr
This      == 1                               \* the class being initialised
NumKlasses == 2 + MaxChain + MaxInterfaces   \* This, its candidates, one unrelated class
Klasses   == 1..NumKlasses
ChainKlass(i)     == 1 + i                   \* i-th ancestor above this
InterfaceKlass(i) == 1 + MaxChain + i
Unrelated         == NumKlasses

hash_code_of(k) == <<(k * 31421 + 6927) % 65536, (k * 12345 + 4321) % 65536>>

\* Klass::hash_code(): a 32-bit value assigned once per class. The second and
\* the third interface got the same value.
hash_code(k) ==
  IF k = InterfaceKlass(3) THEN hash_code_of(InterfaceKlass(2)) ELSE hash_code_of(k)

\* the low 32 bits get_next_hash(THREAD) can return
RawHash(i) ==
  IF i = 1 THEN U32Zero
  ELSE IF i = 2 THEN U32Ones
  ELSE <<(i * 40503) % 65536, (i * 25173 + 13849) % 65536>>

RawHashes == {RawHash(i) : i \in 1..NumSeeds}

(***************************************************************************)
(* Slot index (Klass::index)                                               *)
(***************************************************************************)
\* get_hash32(seed, hash_code()) of line 777, tabulated once for the seeds the
\* searches compose and computed for any other seed
SeedsComposed ==
  {ComposeSeed32(max, h, n) :
     max \in {2, 4, 8, 9}, h \in RawHashes, n \in 0..(MaxChain + MaxInterfaces)}

HashCodes == [k \in Klasses |-> hash_code(k)] @@ <<>>

SeededHashes == [p \in SeedsComposed \X Klasses |-> get_hash32(p[1], HashCodes[p[2]])] @@ <<>>

SeededHash(s, k) ==
  IF <<s, k>> \in DOMAIN SeededHashes THEN SeededHashes[<<s, k>>]
  ELSE get_hash32(s, hash_code(k))

\* A slot computation that masks to the rounded-up size and does not fold the
\* values beyond the size back: IndexInRange tells it from the code's.
index_of_hash_unfolded(h2, tsize) ==
  IF is_power_of_2_sizes_only THEN U32LowNat(h2, tsize - 1)
  ELSE IF mod_rounding_mode THEN U32ModNat(h2, tsize)
  ELSE U32LowNat(h2, round_up_power_of_2(tsize) - 1)

\* Klass::index from the line after get_hash32 on: the slot of the mixed hash h2
index_of_hash(h2, tsize) ==
  IF is_power_of_2_sizes_only THEN U32LowNat(h2, tsize - 1)
  ELSE IF mod_rounding_mode THEN U32ModNat(h2, tsize)
  ELSE LET mask == round_up_power_of_2(tsize) - 1
           h3   == U32SubNat(U32And(h2, U32OfNat(mask)), tsize)
           h4   == IF h3[1] >= 32768 THEN U32Not(h3) ELSE h3
       IN  h4[2] + 65536 * h4[1]

\* (the hash is bound as a value: it is computed once per call)
index(k, s, tsize) ==
  CHOOSE i \in {index_of_hash(h2, tsize) : h2 \in {SeededHash(s, k)}} : TRUE

\* the asserts of Klass::index: "none", or the first one that fails
index_check(s, tsize) ==
  IF ~(tsize > 0) THEN "index: table_size > 0"
  ELSE IF ~(is_power_of_2(tsize) \/ ~is_power_of_2_sizes_only) THEN "index: is_power_of_2"
  ELSE IF ~UseNewCode4 /\ seed2size(s) # tsize THEN "index: seed2size"
  ELSE IF ~UseNewCode4 /\ seed2mask(s) # round_up_power_of_2(tsize) - 1 THEN "index: seed2mask"
  ELSE "none"

(***************************************************************************)
(* Table packer (put_element, pack_table)                                  *)
(***************************************************************************)
Contains(seq, k) == \E i \in 1..Len(seq) : seq[i] = k

Packing(tb, tl, f) == [table |-> tb, tail |-> tl, fault |-> f]

EmptyTable(tsize) == [i \in 1..tsize |-> NullKlass]

\* the asserts put_element makes before it probes
put_element_check(s, elem, tb, tl, tsize, elem_count) ==
  LET empty_slots == Len(tl) + tsize - elem_count
  IN  IF elem = NullKlass THEN "put_element: elem != nullptr"
      ELSE IF ~(seed2size(s) = tsize \/ UseNewCode4) THEN "put_element: seed2size"
      ELSE IF Contains(tb, elem) THEN "put_element: duplicate"
      ELSE IF ~(empty_slots >= 0) THEN "put_element: empty_slots >= 0"
      ELSE IF ~(tsize > 0 \/ empty_slots = 0) THEN "put_element: table_size > 0 || empty_slots == 0"
      ELSE IF empty_slots > 0 THEN index_check(s, tsize)
      ELSE "none"

\* put_element that lets the newcomer take an occupied slot and moves the
\* resident to the tail
put_element_evicting(s, elem, tb, tl, tsize, elem_count) ==
  IF tsize = 0 THEN {Packing(tb, Append(tl, elem), "none")}
  ELSE LET idx == index(elem, s, tsize)
       IN  IF tb[idx + 1] = NullKlass
           THEN {Packing([tb EXCEPT ![idx + 1] = elem], tl, "none")}
           ELSE {Packing([tb EXCEPT ![idx + 1] = elem], Append(tl, tb[idx + 1]), "none")}

\* The packings one call of put_element can leave. With table_size == 0 and
\* empty_slots > 0 a product build computes a slot of an empty table and reads
\* table->at(idx) outside it: the probe is garbage (the element goes to the tail),
\* or null (the element is written outside the table and is in neither list), or
\* the access faults.
put_element(s, elem, tb, tl, tsize, elem_count) ==
  LET empty_slots == Len(tl) + tsize - elem_count
      check       == put_element_check(s, elem, tb, tl, tsize, elem_count)
  IN  IF ASSERT /\ check # "none" THEN {Packing(tb, tl, check)}
      ELSE IF empty_slots > 0 THEN
        IF tsize = 0
        THEN {Packing(tb, Append(tl, elem), "none"), Packing(tb, tl, "none"),
              Packing(tb, tl, "fault: table->at out of bounds")}
        ELSE LET idx   == index(elem, s, tsize)
                 probe == tb[idx + 1]
             IN  IF ASSERT /\ probe = elem THEN {Packing(tb, tl, "put_element: duplicated")}
                 ELSE IF probe = NullKlass
                      THEN {Packing([tb EXCEPT ![idx + 1] = elem], tl, "none")}
                      ELSE {Packing(tb, Append(tl, elem), "none")}
      ELSE {Packing(tb, Append(tl, elem), "none")}

RECURSIVE pack_from(_, _, _, _, _)
pack_from(s, tsize, elements, idx, p) ==
  IF idx >= Len(elements) \/ p.fault # "none" THEN {p}
  ELSE UNION {pack_from(s, tsize, elements, idx + 1, q) :
                q \in put_element(s, elements[idx + 1], p.table, p.tail, tsize, idx)}

\* pack_table(seed, table_size, elements, table, conflicts)
pack_table(s, tsize, elements, p) == pack_from(s, tsize, elements, 0, p)

\* pack_table(seed, table_size, primaries, secondaries, table, conflicts)
pack_table2(s, tsize, prims, secs, p) ==
  IF ASSERT /\ seed2size(s) # tsize THEN {Packing(p.table, p.tail, "pack_table: seed2size")}
  ELSE UNION {pack_table(s, tsize, secs, q) : q \in pack_table(s, tsize, prims, p)}


(***************************************************************************)
(* Table search helpers                                                    *)
(***************************************************************************)
resize_table_check(tsize) ==
  IF ~(tsize < SecondarySupersTableMaxSize) THEN "resize_table: table_size < MaxSize" ELSE "none"

resize_table(tsize, num_of_secondaries) ==
  LET num_of_secondaries2 == num_of_secondaries \div 2
      new_size ==
        IF is_power_of_2_sizes_only THEN
          IF tsize > 0 THEN MIN2(tsize \div 2, SecondarySupersTableMaxSize)
          ELSE IF num_of_secondaries >= SecondarySupersTableMinSize
               THEN round_down_power_of_2(num_of_secondaries)
               ELSE 0
        ELSE
          IF tsize > 0 THEN
            IF num_of_secondaries > 16
            THEN MAX2(tsize - 1, MAX2(num_of_secondaries2, SecondarySupersTableMinSize))
            ELSE tsize + 1
          ELSE IF num_of_secondaries >= SecondarySupersTableMinSize
               THEN MIN2(num_of_secondaries2 + 10, num_of_secondaries)
               ELSE 0
  IN  MIN2(new_size, SecondarySupersTableMaxSize)

is_done_check(tsize, num_of_conflicts, num_of_secondaries) ==
  IF tsize = 0 /\ num_of_conflicts # num_of_secondaries
  THEN "is_done: num_of_conflicts == num_of_secondaries" ELSE "none"

is_done(tsize, num_of_conflicts, num_of_secondaries) ==
  IF tsize = 0 THEN TRUE
  ELSE IF num_of_conflicts = 0 THEN TRUE
  ELSE IF tsize + num_of_conflicts = num_of_secondaries THEN TRUE
  ELSE FALSE

\* get_random_seed(t, table_size), h the value get_next_hash(t) returns
get_random_seed_check(h, tsize) ==
  IF ~(tsize <= SecondarySupersTableMaxSize) THEN "get_random_seed: table_size <= MaxSize"
  ELSE IF tsize > 0 THEN compose_seed32_check(h, tsize)
  ELSE "none"

get_random_seed(h, tsize) == IF tsize > 0 THEN compose_seed32(h, tsize) ELSE U32Zero

\* initial_seed(k, secondaries, table_size) cast to uint32_t, h the low 32 bits
\* of the seed it takes from the superclass or from one of the secondaries
initial_seed(h, tsize) == IF tsize > 0 THEN compose_seed32(h, tsize) ELSE U32Zero

\* vmClasses::Object_klass(): never a secondary supertype
Object_klass == NumKlasses + 1

nz_count(arr) ==
  Cardinality({i \in 1..Len(arr) : arr[i] # NullKlass /\ arr[i] # Object_klass})

\* compute_conflicts(seed, table, tail): per slot, how many tail entries have it
\* as their natural slot
compute_conflicts(s, tb, tl) ==
  [i \in 1..Len(tb) |-> Cardinality({j \in 1..Len(tl) : index(tl[j], s, Len(tb)) + 1 = i})]

compute_conflicts_check(s, tb, tl) ==
  IF Len(tb) = 0 THEN "none"
  ELSE IF \E j \in 1..Len(tl) : tl[j] = NullKlass THEN "compute_conflicts: k != nullptr"
  ELSE IF \E j \in 1..Len(tl) : index_check(s, Len(tb)) # "none" THEN index_check(s, Len(tb))
  ELSE IF \E j \in 1..Len(tl) : tb[index(tl[j], s, Len(tb)) + 1] = NullKlass
       THEN "compute_conflicts: no conflict detected"
  ELSE "none"

\* A score is the fraction <<numerator, denominator>>; the code's doubles
\* 1.0 / (4.0 * table_nz / table_size + 1.0 * table_size / num_of_elements)
\* are compared exactly.
Score(num, den) == <<num, den>>

\* a comparison that lets a trial of the same score replace the best one
ScoreNotGreater(a, b) == a[1] * b[2] <= b[1] * a[2]

ScoreLess(a, b) == a[1] * b[2] < b[1] * a[2]

compute_weight(s, tb, tl) ==
  LET tsize           == Len(tb)
      table_nz        == nz_count(tb)
      num_of_elements == table_nz + Len(tl)
  IN  IF tsize > 0
      THEN Score(tsize * num_of_elements, 4 * table_nz * num_of_elements + tsize * tsize)
      ELSE Score(Len(tl), 1)

compute_weight_check(s, tb, tl) == compute_conflicts_check(s, tb, tl)


(***************************************************************************)
(* Persisted storage (create_secondary_supers_table) and its accessors     *)
(***************************************************************************)

\* an element of Array<Klass*>: the class and the two tag bits in the pointer
add_tag(k, tag) == [klass |-> k, tag |-> tag]

NullArray == <<add_tag(-1, -1)>>     \* _secondary_supers == nullptr

\* Array<Klass*>::at(i) == k on the raw (tagged) pointer, for a non-null k
RawEquals(e, k) == e.klass = k /\ e.tag = 0

\* Klass::secondary_supers_at(i): the element with its tag bits removed
secondary_supers_at(arr, i) == arr[i + 1].klass

\* the 64-bit _secondary_supers_seed: seed2 its high, seed1 its low 32 bits
Seed64(s2, s1) == [hi |-> s2, lo |-> s1]

\* Klass::secondary_supers_table_size()
secondary_supers_table_size(s64) == seed2size(s64.lo)

create_secondary_supers_table_check(s1, ptable, s2, stable, tl) ==
  IF seed2size(s1) # Len(ptable) THEN "create_secondary_supers_table: seed2size(seed1)"
  ELSE IF seed2size(s2) # Len(stable) THEN "create_secondary_supers_table: seed2size(seed2)"
  ELSE IF compute_conflicts_check(s1, ptable, tl) # "none"
       THEN compute_conflicts_check(s1, ptable, tl)
  ELSE compute_conflicts_check(IF UseNewCode4 THEN s1 ELSE s2, stable, tl)

\* A materialisation that tags the tail entries like residents of the second
\* level: DegenerateSize tells it from the code's.
create_secondary_supers_table_tagged_tail(s1, ptable, s2, stable, tl) ==
  [j \in 1..Len(ptable) |-> add_tag(ptable[j], IF ptable[j] # NullKlass THEN 1 ELSE 0)]
    \o [j \in 1..Len(stable) |-> add_tag(stable[j], IF stable[j] # NullKlass THEN 2 ELSE 0)]
    \o [j \in 1..Len(tl) |-> add_tag(tl[j], 2)]

create_secondary_supers_table(s1, ptable, s2, stable, tl) ==
  LET conflicts1 == compute_conflicts(s1, ptable, tl)
      conflicts2 == compute_conflicts(IF UseNewCode4 THEN s1 ELSE s2, stable, tl)
      zone1 == [j \in 1..Len(ptable) |->
                  add_tag(ptable[j], IF ptable[j] # NullKlass
                                     THEN (IF conflicts1[j] > 0 THEN 3 ELSE 1) ELSE 0)]
      zone2 == [j \in 1..Len(stable) |->
                  add_tag(stable[j], IF stable[j] # NullKlass
                                     THEN (IF conflicts2[j] > 0 THEN 3 ELSE 2) ELSE 0)]
      zone3 == [j \in 1..Len(tl) |-> add_tag(tl[j], 0)]
  IN  zone1 \o zone2 \o zone3

(***************************************************************************)
(* Lookup (search_secondary_supers and its two searches)                   *)
(***************************************************************************)
search_secondary_supers_linear(arr, k) ==
  \E i \in 0..(Len(arr) - 1) : secondary_supers_at(arr, i) = k

\* Array<Klass*>::contains(k, start)
ArrayContains(arr, k, start) ==
  \E i \in start..(Len(arr) - 1) : RawEquals(arr[i + 1], k)

\* A probe that takes every occupied slot for a match: NegativeCorrectness tells
\* it from the code's probe.
probe_slot_occupied(probe, k, next) == probe # NullKlass

\* what a probed slot decides (lines 161-166 and 170-175): a match, an empty
\* slot, or the next step of the search
probe_slot(probe, k, next) ==
  IF probe = k THEN TRUE
  ELSE IF probe = NullKlass THEN FALSE
  ELSE next

search_secondary_supers_table(arr, s64, k) ==
  LET secondary_seed       == s64.hi
      primary_table_size   == secondary_supers_table_size(s64)
      secondary_table_size == seed2size(secondary_seed)
      primary_base_idx     == 0
      secondary_base_idx   == primary_base_idx + primary_table_size
      linear_base_idx      == secondary_base_idx + secondary_table_size
      primary_seed_        == s64.lo
      primary_probe        ==
        secondary_supers_at(arr, primary_base_idx + index(k, primary_seed_, primary_table_size))
      secondary_probe      ==
        secondary_supers_at(arr, secondary_base_idx
                                   + index(k, IF UseNewCode4 THEN primary_seed_ ELSE secondary_seed,
                                           secondary_table_size))
      in_tail              == ArrayContains(arr, k, linear_base_idx)
  IN  IF primary_table_size > 0
      THEN probe_slot(primary_probe, k,
                      IF secondary_table_size > 0
                      THEN probe_slot(secondary_probe, k, in_tail)
                      ELSE in_tail)
      ELSE in_tail

\* the asserts of search_secondary_supers_table and the reads outside the array:
\* "none", or the first that fails
search_secondary_supers_table_check(arr, s64, k) ==
  LET secondary_seed       == s64.hi
      primary_table_size   == secondary_supers_table_size(s64)
      secondary_table_size == seed2size(secondary_seed)
      primary_seed_        == s64.lo
      second_seed          == IF UseNewCode4 THEN primary_seed_ ELSE secondary_seed
  IN  IF primary_table_size > 0 THEN
        IF ASSERT /\ ~(is_power_of_2(primary_table_size) \/ ~is_power_of_2_sizes_only)
          THEN "search_secondary_supers_table: is_power_of_2"
        ELSE IF ASSERT /\ index_check(primary_seed_, primary_table_size) # "none"
          THEN index_check(primary_seed_, primary_table_size)
        ELSE IF index(k, primary_seed_, primary_table_size) >= Len(arr)
          THEN "fault: secondary_supers_at out of bounds"
        ELSE IF secondary_supers_at(arr, index(k, primary_seed_, primary_table_size))
                  \in {k, NullKlass} \/ secondary_table_size = 0
          THEN "none"
        ELSE IF ASSERT /\ index_check(second_seed, secondary_table_size) # "none"
          THEN index_check(second_seed, secondary_table_size)
        ELSE IF primary_table_size + index(k, second_seed, secondary_table_size) >= Len(arr)
          THEN "fault: secondary_supers_at out of bounds"
        ELSE "none"
      ELSE IF ASSERT /\ secondary_table_size # 0
        THEN "search_secondary_supers_table: secondary_table_size == 0"
      ELSE "none"

\* A lookup without the test this == k: IdentityShortCircuit tells it from the
\* code's lookup.
search_secondary_supers_no_identity(arr, s64, k) ==
  IF UseSecondarySupersTable THEN search_secondary_supers_table(arr, s64, k)
  ELSE search_secondary_supers_linear(arr, k)

\* Klass::search_secondary_supers(k) on the class whose fields are arr and s64
search_secondary_supers(arr, s64, k) ==
  IF This = k THEN TRUE
  ELSE IF UseSecondarySupersTable THEN search_secondary_supers_table(arr, s64, k)
  ELSE search_secondary_supers_linear(arr, k)


(***************************************************************************)
(* Verification (Klass::verify_on, the part on the secondary supers)       *)
(***************************************************************************)
\* "none", or the first guarantee or assert of lines 1527-1576 that fails; with
\* decoded zone sizes beyond the array the reads are outside it
verify_on(arr, s64) ==
  LET primary_seed_        == s64.lo
      secondary_seed       == s64.hi
      second_seed          == IF UseNewCode4 THEN primary_seed_ ELSE secondary_seed
      primary_table_size   == secondary_supers_table_size(s64)
      secondary_table_size == seed2size(secondary_seed)
      secondary_base_idx   == primary_table_size
      linear_base_idx      == secondary_base_idx + secondary_table_size
  IN  IF arr = NullArray THEN "none"
      ELSE IF linear_base_idx > Len(arr) THEN "fault: secondary_supers_at out of bounds"
      ELSE IF \E i \in 0..(primary_table_size - 1) :
                /\ secondary_supers_at(arr, i) # NullKlass
                /\ index(secondary_supers_at(arr, i), primary_seed_, primary_table_size) # i
        THEN "misplaced"
      ELSE IF \E i \in 0..(secondary_table_size - 1) :
                /\ secondary_supers_at(arr, secondary_base_idx + i) # NullKlass
                /\ index(secondary_supers_at(arr, secondary_base_idx + i), second_seed,
                         secondary_table_size) # i
        THEN "misplaced"
      ELSE IF ~ASSERT THEN "none"
      ELSE IF \E i \in linear_base_idx..(Len(arr) - 1) : arr[i + 1].tag # 0
        THEN "verify_on: no tags in the tail"
      ELSE IF \E i \in linear_base_idx..(Len(arr) - 1) : secondary_supers_at(arr, i) = NullKlass
        THEN "verify_on: k != nullptr"
      ELSE IF primary_table_size > 0
              /\ \E i \in linear_base_idx..(Len(arr) - 1) :
                    arr[index(secondary_supers_at(arr, i), primary_seed_, primary_table_size) + 1].tag = 0
        THEN "verify_on: missing conflict tag"
      ELSE IF secondary_table_size > 0
              /\ \E i \in linear_base_idx..(Len(arr) - 1) :
                    arr[secondary_base_idx
                          + index(secondary_supers_at(arr, i), second_seed, secondary_table_size)
                          + 1].tag = 0
        THEN "verify_on: missing conflict tag"
      ELSE "none"

(***************************************************************************)
(* Inputs                                                                  *)
(***************************************************************************)
SizingModes  == {0, 1, 8}   \* masked round-up difference, power-of-two mask, modulo
MaxSizes     == {2, 4}
MinSizes     == {3}
MaxAttempts  == {0, 2}

AllConfigs ==
  [UseSecondarySupersTable        : BOOLEAN,
   SecondarySupersTableSizingMode : SizingModes,
   SecondarySupersTableMaxSize    : MaxSizes,
   SecondarySupersTableMinSize    : MinSizes,
   SecondarySupersMaxAttempts     : MaxAttempts,
   UseNewCode                     : BOOLEAN,
   UseNewCode2                    : BOOLEAN,
   UseNewCode4                    : BOOLEAN,
   ASSERT                         : BOOLEAN]

\* A flag no search reads under a configuration has one value in it: without a
\* table search (no table, or no attempts) the sizing flags and the UseNewCode
\* flags are not read, and without UseNewCode no second level is built, so that
\* UseNewCode2 is not read and UseNewCode4 only relaxes asserts of calls that are
\* never made.
Configs ==
  {c \in AllConfigs :
     /\ (~c.UseNewCode => ~c.UseNewCode2 /\ ~c.UseNewCode4)
     /\ (~c.UseSecondarySupersTable \/ c.SecondarySupersMaxAttempts = 0
           => /\ c.SecondarySupersTableSizingMode = 1
              /\ c.SecondarySupersTableMaxSize = 4
              /\ c.SecondarySupersTableMinSize = 3
              /\ ~c.UseNewCode
              /\ (~c.UseSecondarySupersTable => c.SecondarySupersMaxAttempts = 2))}

NullList == <<-1>>

\* how many times initialize_supers is called again on the class
MaxReentries == 1   \* compute_secondary_supers returned nullptr

\* how many ancestors overflow the primary supers, how many interfaces the class has
ChainLengths == {0, 1, MaxChain}

InterfaceCounts == {0, 1, 3, MaxInterfaces}

Chains == {[i \in 1..p |-> ChainKlass(i)] : p \in ChainLengths}

\* what compute_secondary_supers can return: the interfaces, the interfaces with an
\* ancestor among them, or nullptr (only with no overflow, line 1090)
InterfaceLists(chain) ==
  {[i \in 1..q |-> InterfaceKlass(i)] : q \in InterfaceCounts}
    \cup (IF Len(chain) > 0 THEN {<<InterfaceKlass(1), chain[1]>>} ELSE {NullList})

\* the secondary supertypes of this: overflow primaries and secondaries
Candidates ==
  {super_chain[i] : i \in 1..Len(super_chain)}
    \cup (IF interfaces = NullList THEN {} ELSE {interfaces[i] : i \in 1..Len(interfaces)})

\* compute_primary_supers without the scan for duplicates of the secondaries
compute_primary_supers_unscanned(chain, secs) ==
  IF Len(chain) > 0 THEN chain ELSE <<>>

(***************************************************************************)
(* Class initialisation: initialize_supers, initialize_secondary_supers    *)
(***************************************************************************)
compute_primary_supers(chain, secs) ==
  IF Len(chain) > 0 THEN SelectSeq(chain, LAMBDA p : ~Contains(secs, p)) ELSE <<>>

Reverse(seq) == [i \in 1..Len(seq) |-> seq[Len(seq) + 1 - i]]

NumOfSecondaries == Len(primaries) + Len(secondaries)

NoTrial == <<>>

\* the locals of a thread in search_secondary_supers(k)
ReaderIdle ==
  [pc |-> "idle", k |-> NullKlass, secondary_seed |-> U32Zero, primary_table_size |-> 0,
   primary_seed |-> U32Zero, result |-> FALSE]

\* the class after construction, before initialize_supers
Constructed ==
  /\ pc = "start"
  /\ failure = "none"
  /\ primaries = <<>> /\ secondaries = <<>>
  /\ primary_seed = U32Zero /\ primary_table = <<>>
  /\ mode = -1
  /\ table_size = 0 /\ attempt = 0 /\ is_in_progress = FALSE
  /\ seed = U32Zero /\ table = <<>> /\ tail = <<>>
  /\ best_seed = U32Zero /\ best_score = Score(0, 1) /\ best_table = <<>> /\ best_tail = <<>>
  /\ ss_table = NullArray /\ seed1 = U32Zero /\ seed2 = U32Zero
  /\ secondary_supers = NullArray
  /\ secondary_supers_seed = Seed64(U32Zero, U32Zero)
  /\ query = <<>>
  /\ reader = ReaderIdle
  /\ codec = <<>>
  /\ call = <<>>
  /\ reentries = 0

\* this is on no subklass list yet, and no thread is at work on one
Unlinked ==
  /\ _subklass = NullKlass /\ _next_sibling = <<>>
  /\ loader_alive = <<>> /\ thread = <<>>

Init ==
  /\ cfg \in Configs
  /\ super_chain \in Chains
  /\ interfaces \in InterfaceLists(super_chain)
  /\ Constructed
  /\ Unlinked

Abort(why) ==
  /\ pc' = "abort"
  /\ failure' = why
  /\ UNCHANGED <<inputs, search, created, fields, query, reader, codec, call, reentries, siblings>>

\* initialize_supers up to the call of initialize_secondary_supers_table (or, with
\* no table, up to the allocation of the plain list)
InitializeSupers ==
  /\ pc = "start"
  /\ secondary_supers = NullArray
  /\ IF interfaces = NullList
     THEN \* Klass::compute_secondary_supers set the empty array itself
          /\ pc' = "set1"
          /\ ss_table' = <<>> /\ seed1' = U32Zero /\ seed2' = U32Zero
          /\ UNCHANGED <<inputs, failure, search, fields, query, reader, codec, call, reentries, siblings>>
     ELSE LET prims == compute_primary_supers(super_chain, interfaces)
              n     == Len(prims) + Len(interfaces)
          IN  IF UseSecondarySupersTable /\ SecondarySupersMaxAttempts > 0
              THEN /\ pc' = "attempt"
                   /\ primaries' = prims /\ secondaries' = interfaces
                   /\ best_seed' = U32Zero /\ best_score' = Score(n + 1 + 2, 1)
                   /\ best_table' = <<>> /\ best_tail' = <<>>
                   /\ table_size' = resize_table(0, n)
                   /\ attempt' = 0 /\ is_in_progress' = TRUE
                   /\ UNCHANGED <<inputs, failure, primary_seed, primary_table, mode,
                                  seed, table, tail, created, fields, query, reader, codec, call, reentries, siblings>>
              ELSE /\ pc' = "linear"
                   /\ primaries' = prims /\ secondaries' = interfaces
                   /\ UNCHANGED <<inputs, failure, primary_seed, primary_table, mode,
                                  table_size, attempt, is_in_progress, seed, table, tail,
                                  best_seed, best_score, best_table, best_tail,
                                  created, fields, query, reader, codec, call, reentries, siblings>>

\* the else branch of initialize_secondary_supers: the plain list
LinearList ==
  /\ pc = "linear"
  /\ \E allocated \in BOOLEAN :
       IF allocated
       THEN /\ pc' = "set1"
            /\ ss_table' = [j \in 1..NumOfSecondaries |->
                              add_tag((Reverse(primaries) \o secondaries)[j], 0)]
            /\ seed1' = U32Zero /\ seed2' = U32Zero
            /\ UNCHANGED <<inputs, failure, search, fields, query, reader, codec, call, reentries, siblings>>
       ELSE /\ pc' = "oom"
            /\ UNCHANGED <<inputs, failure, search, created, fields, query, reader, codec, call, reentries, siblings>>


(***************************************************************************)
(* Table search: initialize_secondary_supers_table, both overloads         *)
(***************************************************************************)
SecondLevel == mode >= 0

\* the loop condition of the attempt loop, and the break under UseNewCode4
InAttemptLoop ==
  /\ attempt < SecondarySupersMaxAttempts
  /\ is_in_progress
  /\ ~(SecondLevel /\ UseNewCode4 /\ attempt > 0)

\* the rest of a loop iteration after pack_table left the packing p for seed s
TrialOutcome(s, p) ==
  LET n         == NumOfSecondaries
      weighed   == mode <= 0
      wcheck    == IF weighed THEN compute_weight_check(s, p.table, p.tail) ELSE "none"
      score     == IF weighed THEN compute_weight(s, p.table, p.tail)
                   ELSE Score(Len(p.tail), 1)
      better    == ScoreLess(score, best_score)
      dcheck    == IF better THEN is_done_check(Len(p.table), Len(p.tail), n) ELSE "none"
      new_seed  == IF better THEN s ELSE best_seed
      ncheck    == IF SecondLevel /\ UseNewCode4 /\ new_seed # primary_seed
                   THEN "initialize_secondary_supers_table: best_seed == primary_seed"
                   ELSE "none"
  IN  IF p.fault # "none" THEN Abort(p.fault)
      ELSE IF ASSERT /\ wcheck # "none" THEN Abort(wcheck)
      ELSE IF ASSERT /\ better /\ ~(Len(p.table) <= SecondarySupersTableMaxSize)
        THEN Abort("initialize_secondary_supers_table: no resizing allowed")
      ELSE IF ASSERT /\ dcheck # "none" THEN Abort(dcheck)
      ELSE IF ASSERT /\ ncheck # "none" THEN Abort(ncheck)
      ELSE /\ seed' = s /\ table' = p.table /\ tail' = p.tail
           /\ attempt' = attempt + 1
           /\ IF better
              THEN /\ best_score' = score
                   /\ best_seed' = s
                   /\ best_table' = p.table
                   /\ best_tail' = p.tail
                   /\ is_in_progress' = ~is_done(Len(p.table), Len(p.tail), n)
              ELSE UNCHANGED <<best_score, best_seed, best_table, best_tail, is_in_progress>>
           /\ UNCHANGED <<inputs, pc, failure, primaries, secondaries, primary_seed,
                          primary_table, mode, table_size, created, fields, query, reader, codec, call, reentries, siblings>>

\* one iteration of the attempt loop: draw a seed, pack, score, keep the best
Trial ==
  /\ pc = "attempt"
  /\ InAttemptLoop
  /\ \E h \in RawHashes :
     \E s \in {IF SecondLevel /\ UseNewCode4 THEN primary_seed
               ELSE IF ~SecondLevel /\ attempt = 0 THEN initial_seed(h, table_size)
               ELSE get_random_seed(h, table_size)} :
       LET scheck == IF ~SecondLevel /\ attempt = 0
                     THEN (IF table_size > 0 THEN compose_seed32_check(h, table_size) ELSE "none")
                     ELSE get_random_seed_check(h, table_size)
           empty  == Packing(EmptyTable(table_size), <<>>, "none")
       IN  IF ASSERT /\ scheck # "none" THEN Abort(scheck)
           ELSE \E p \in (IF SecondLevel THEN pack_table(s, table_size, secondaries, empty)
                          ELSE pack_table2(s, table_size, primaries, secondaries, empty)) :
                  TrialOutcome(s, p)

\* after the attempt loop: try another table size, or leave the search
EndRound ==
  /\ pc = "attempt"
  /\ ~InAttemptLoop
  /\ LET n       == NumOfSecondaries
         resizes == IF SecondLevel
                    THEN is_in_progress /\ mode = 0 /\ table_size > SecondarySupersTableMinSize
                    ELSE is_in_progress /\ table_size > SecondarySupersTableMinSize
         new     == resize_table(table_size, n)
         goes_on == IF SecondLevel THEN new > (n \div 2)
                    ELSE new > (n \div 2) /\ new < (n + SecondarySupersTableMinSize)
     IN  IF resizes /\ ASSERT /\ resize_table_check(table_size) # "none"
         THEN Abort(resize_table_check(table_size))
         ELSE /\ table_size' = IF resizes THEN new ELSE table_size
              /\ is_in_progress' = (resizes /\ goes_on)
              /\ pc' = IF resizes /\ goes_on THEN "attempt" ELSE "finish"
              /\ attempt' = 0
              /\ seed' = U32Zero /\ table' = NoTrial /\ tail' = NoTrial
              /\ UNCHANGED <<inputs, failure, primaries, secondaries, primary_seed,
                             primary_table, mode, best_seed, best_score, best_table,
                             best_tail, created, fields, query, reader, codec, call, reentries, siblings>>

\* A persisting step that stores the seed before it looks at the allocation's
\* result: AllocationFailure tells it from the code's.
CreateSeedFirst(s1, ptable, s2, stable, tl) ==
  \E allocated \in BOOLEAN :
    IF allocated
    THEN /\ pc' = "set1"
         /\ ss_table' = create_secondary_supers_table(s1, ptable, s2, stable, tl)
         /\ seed1' = s1 /\ seed2' = s2
         /\ UNCHANGED <<inputs, failure, search, fields, query, reader, codec, call, reentries, siblings>>
    ELSE /\ pc' = "oom"
         /\ secondary_supers_seed' = Seed64(s2, s1)
         /\ UNCHANGED <<inputs, failure, search, created, secondary_supers, query, reader,
                        codec, call, reentries, siblings>>

\* create_secondary_supers_table and what follows it up to the call of
\* set_secondary_supers; the allocation of the array may fail
Create(s1, ptable, s2, stable, tl) ==
  LET check == create_secondary_supers_table_check(s1, ptable, s2, stable, tl)
  IN  IF ASSERT /\ check # "none" THEN Abort(check)
      ELSE \E allocated \in BOOLEAN :
             IF allocated
             THEN /\ pc' = "set1"
                  /\ ss_table' = create_secondary_supers_table(s1, ptable, s2, stable, tl)
                  /\ seed1' = s1 /\ seed2' = s2
                  /\ UNCHANGED <<inputs, failure, search, fields, query, reader, codec, call, reentries, siblings>>
             ELSE /\ pc' = "oom"
                  /\ UNCHANGED <<inputs, failure, search, created, fields, query, reader, codec, call, reentries, siblings>>

\* A first-level overload that builds the second level whenever its table has
\* slots, however short the tail: SecondLevelZoneCondition tells it from the code's.
FinishFirstLevelAnyTail ==
  /\ pc = "finish"
  /\ ~SecondLevel
  /\ LET n == NumOfSecondaries
     IN  IF ASSERT /\ ~(n <= Len(best_table) + Len(best_tail))
         THEN Abort("initialize_secondary_supers_table: num_of_secondaries")
         ELSE IF UseNewCode /\ Len(best_table) > 0
         THEN LET m  == IF UseNewCode2 THEN 1 ELSE 0
                  n2 == Len(best_tail)
              IN  /\ pc' = "attempt"
                  /\ primary_seed' = best_seed /\ primary_table' = best_table
                  /\ primaries' = <<>> /\ secondaries' = best_tail
                  /\ mode' = m
                  /\ best_seed' = U32Ones
                  /\ best_score' = IF m = 0 THEN Score(n2 + 1 + 2, 1) ELSE Score(2 * n2, 1)
                  /\ best_table' = <<>> /\ best_tail' = <<>>
                  /\ table_size' = IF m = 0 THEN resize_table(0, n2)
                                   ELSE IF is_power_of_2_sizes_only
                                        THEN round_up_power_of_2(n2) ELSE n2
                  /\ attempt' = 0 /\ is_in_progress' = TRUE
                  /\ UNCHANGED <<inputs, failure, seed, table, tail, created, fields,
                                 query, reader, codec, call, reentries, siblings>>
         ELSE Create(best_seed, best_table, U32Zero, <<>>, best_tail)

\* the first-level overload after its search: build the second level, or persist
FinishFirstLevel ==
  /\ pc = "finish"
  /\ ~SecondLevel
  /\ LET n == NumOfSecondaries
     IN  IF ASSERT /\ ~(n <= Len(best_table) + Len(best_tail))
         THEN Abort("initialize_secondary_supers_table: num_of_secondaries")
         ELSE IF UseNewCode /\ Len(best_table) > 0
                 /\ Len(best_tail) >= SecondarySupersTableMinSize
         THEN LET m  == IF UseNewCode2 THEN 1 ELSE 0
                  n2 == Len(best_tail)
              IN  /\ pc' = "attempt"
                  /\ primary_seed' = best_seed /\ primary_table' = best_table
                  /\ primaries' = <<>> /\ secondaries' = best_tail
                  /\ mode' = m
                  /\ best_seed' = U32Ones
                  /\ best_score' = IF m = 0 THEN Score(n2 + 1 + 2, 1) ELSE Score(2 * n2, 1)
                  /\ best_table' = <<>> /\ best_tail' = <<>>
                  /\ table_size' = IF m = 0 THEN resize_table(0, n2)
                                   ELSE IF is_power_of_2_sizes_only
                                        THEN round_up_power_of_2(n2) ELSE n2
                  /\ attempt' = 0 /\ is_in_progress' = TRUE
                  /\ UNCHANGED <<inputs, failure, seed, table, tail, created, fields,
                                 query, reader, codec, call, reentries, siblings>>
         ELSE Create(best_seed, best_table, U32Zero, <<>>, best_tail)

\* the second-level overload after its search
FinishSecondLevel ==
  /\ pc = "finish"
  /\ SecondLevel
  /\ LET n      == NumOfSecondaries
         s2     == IF UseNewCode4 THEN compose_seed32(U32Zero, Len(best_table)) ELSE best_seed
         ncheck == IF UseNewCode4 /\ best_seed # primary_seed
                   THEN "initialize_secondary_supers_table: best_seed == primary_seed"
                   ELSE IF UseNewCode4 THEN compose_seed32_check(U32Zero, Len(best_table))
                   ELSE "none"
     IN  IF ASSERT /\ ~(n <= Len(best_table) + Len(best_tail))
         THEN Abort("initialize_secondary_supers_table: num_of_secondaries")
         ELSE IF ASSERT /\ ncheck # "none" THEN Abort(ncheck)
         ELSE Create(primary_seed, primary_table, s2, best_table, best_tail)


(***************************************************************************)
(* Publication: set_secondary_supers(k, seed1, seed2)                      *)
(***************************************************************************)
set_secondary_supers_check(k, s1, s2) ==
  IF ~(k # NullArray \/ (s1 = U32Zero /\ s2 = U32Zero)) THEN "set_secondary_supers: k != nullptr"
  ELSE IF ~(s1 # U32Zero \/ s2 = U32Zero) THEN "set_secondary_supers: seed1 != 0 || seed2 == 0"
  ELSE IF k # NullArray /\ Len(k) > 0 /\ s1 = U32Zero
       THEN compose_seed32_check(U32Ones, 0)
  ELSE "none"

\* the seed set_secondary_supers stores
set_secondary_supers_seed(k, s1, s2) ==
  IF k # NullArray /\ Len(k) > 0 /\ s1 = U32Zero
  THEN Seed64(compose_seed32(U32Ones, 0), s1)
  ELSE Seed64(s2, s1)

\* _secondary_supers = k;
SetSecondarySupersArray ==
  /\ pc = "set1"
  /\ LET check == set_secondary_supers_check(ss_table, seed1, seed2)
     IN  IF ASSERT /\ check # "none" THEN Abort(check)
         ELSE /\ secondary_supers' = ss_table
              /\ pc' = "set2"
              /\ UNCHANGED <<inputs, failure, search, created, secondary_supers_seed,
                             query, reader, codec, call, reentries, siblings>>

\* _secondary_supers_seed = seed; and the asserts after it
SetSecondarySupersSeed ==
  /\ pc = "set2"
  /\ LET s64 == set_secondary_supers_seed(ss_table, seed1, seed2)
     IN  IF ASSERT /\ ~(secondary_supers_table_size(s64) # 0 \/ seed1 = U32Zero)
         THEN Abort("set_secondary_supers: secondary_supers_table_size")
         ELSE /\ secondary_supers_seed' = s64
              /\ pc' = "done"
              /\ UNCHANGED <<inputs, failure, search, created, secondary_supers, query, reader, codec, call, reentries, siblings>>

(***************************************************************************)
(* Queries on the initialised class                                        *)
(***************************************************************************)
\* this->search_secondary_supers(k) on the fields as they are
Lookup(k) == search_secondary_supers(secondary_supers, secondary_supers_seed, k)

\* the assert that stops that call or the read outside the array it makes, if any
LookupCheck(k) ==
  IF This # k /\ UseSecondarySupersTable
  THEN search_secondary_supers_table_check(secondary_supers, secondary_supers_seed, k)
  ELSE "none"

\* A lookup that moves what it finds: it swaps the first two entries of the
\* storage. IdempotentQuery tells it from the code's lookup.
QuerySwapping ==
  /\ pc = "done"
  /\ \E k \in Klasses :
       /\ query' = <<k, Lookup(k), query # <<>> /\ query[1] = k>>
       /\ secondary_supers' =
            IF Len(secondary_supers) >= 2
            THEN [secondary_supers EXCEPT ![1] = secondary_supers[2], ![2] = secondary_supers[1]]
            ELSE secondary_supers
       /\ UNCHANGED <<inputs, pc, failure, search, created, secondary_supers_seed,
                      reader, codec, call, reentries, siblings>>

\* search_secondary_supers(k) called on this once initialize_supers has returned
Query ==
  /\ pc = "done"
  /\ \E k \in Klasses :
       IF LookupCheck(k) # "none" THEN Abort(LookupCheck(k))
       ELSE /\ query' = <<k, Lookup(k), query # <<>> /\ query[1] = k>>
            /\ UNCHANGED <<inputs, pc, failure, search, created, fields, reader, codec, call, reentries, siblings>>

\* An initialize_supers that runs the builder of the plain list whether or not
\* the class has storage: BuildOnce tells it from the code's.
InitializeSupersUnguarded ==
  /\ pc = "done"
  /\ reentries < MaxReentries
  /\ reentries' = reentries + 1
  /\ pc' = "set1"
  /\ ss_table' = [j \in 1..Len(secondary_supers) |->
                    add_tag(secondary_supers[Len(secondary_supers) + 1 - j].klass, 0)]
  /\ seed1' = U32Zero /\ seed2' = U32Zero
  /\ UNCHANGED <<inputs, failure, search, fields, query, reader, codec, call, siblings>>

\* initialize_supers(k, transitive_interfaces) called again, with the same k,
\* after the first call returned: if (secondary_supers() == nullptr) guards the
\* builder
InitializeSupersAgain ==
  /\ pc = "done"
  /\ reentries < MaxReentries
  /\ reentries' = reentries + 1
  /\ pc' = IF secondary_supers = NullArray THEN "start" ELSE "done"
  /\ UNCHANGED <<inputs, failure, search, created, fields, query, reader, codec, call, siblings>>

Next ==
  \/ InitializeSupers
  \/ LinearList
  \/ Trial
  \/ EndRound
  \/ FinishFirstLevel
  \/ FinishSecondLevel
  \/ SetSecondarySupersArray
  \/ SetSecondarySupersSeed
  \/ Query

Spec == Init /\ [][Next]_vars

\* the build, and initialize_supers called again on the class it built
NextAgain ==
  \/ InitializeSupers
  \/ LinearList
  \/ Trial
  \/ EndRound
  \/ FinishFirstLevel
  \/ FinishSecondLevel
  \/ SetSecondarySupersArray
  \/ SetSecondarySupersSeed
  \/ InitializeSupersAgain

SpecAgain == Init /\ [][NextAgain]_vars

\* the initialising thread is not stopped for ever in the search loops
SpecLive == Init /\ [][Next]_vars /\ WF_vars(Trial \/ EndRound)


(***************************************************************************)
(* A second thread in search_secondary_supers while the class is built.    *)
(* The fields are plain: every read of a field is a step of its own.       *)
(***************************************************************************)
ReaderFrame == UNCHANGED <<inputs, pc, failure, search, created, fields, query, codec, call, reentries, siblings>>

ReaderReturn(r) == reader' = [reader EXCEPT !.pc = "returned", !.result = r]

ReaderFault == reader' = [reader EXCEPT !.pc = "fault"]

\* The call. Before set_secondary_supers no step of the build writes a field,
\* so that a call made earlier reads what a call made at its entry reads.
ReaderCall ==
  /\ reader.pc = "idle"
  /\ pc \in {"set1", "set2", "done"}
  /\ \E k \in Klasses :
       IF This = k THEN reader' = [reader EXCEPT !.pc = "returned", !.k = k, !.result = TRUE]
       ELSE reader' = [reader EXCEPT !.k = k,
                                     !.pc = IF UseSecondarySupersTable THEN "l145" ELSE "l133"]
  /\ ReaderFrame

\* search_secondary_supers_linear: secondary_supers()->length() and the scan
ReaderLinear ==
  /\ reader.pc = "l133"
  /\ IF secondary_supers = NullArray THEN ReaderFault
     ELSE ReaderReturn(search_secondary_supers_linear(secondary_supers, reader.k))
  /\ ReaderFrame

\* uint32_t secondary_seed = (uint32_t)(secondary_supers_seed() >> 32);
ReaderSecondarySeed ==
  /\ reader.pc = "l145"
  /\ reader' = [reader EXCEPT !.pc = "l147", !.secondary_seed = secondary_supers_seed.hi]
  /\ ReaderFrame

\* uint primary_table_size = secondary_supers_table_size(); and the branch on it
ReaderPrimarySize ==
  /\ reader.pc = "l147"
  /\ LET size == secondary_supers_table_size(secondary_supers_seed)
     IN  IF size > 0
         THEN IF ASSERT /\ ~(is_power_of_2(size) \/ ~is_power_of_2_sizes_only) THEN ReaderFault
              ELSE reader' = [reader EXCEPT !.pc = "l158", !.primary_table_size = size]
         ELSE IF ASSERT /\ seed2size(reader.secondary_seed) # 0 THEN ReaderFault
              ELSE reader' = [reader EXCEPT !.pc = "l181", !.primary_table_size = size]
  /\ ReaderFrame

\* uint32_t primary_seed = (uint32_t)secondary_supers_seed();
ReaderPrimarySeed ==
  /\ reader.pc = "l158"
  /\ reader' = [reader EXCEPT !.pc = "l160", !.primary_seed = secondary_supers_seed.lo]
  /\ ReaderFrame

\* what the probe of a slot zone leads to: base the zone's first index, s and
\* size its seed and size, next the step after an occupied slot
ReaderProbe(base, s, size, next) ==
  IF secondary_supers = NullArray THEN ReaderFault
  ELSE IF ASSERT /\ index_check(s, size) # "none" THEN ReaderFault
  ELSE IF base + index(reader.k, s, size) >= Len(secondary_supers) THEN ReaderFault
  ELSE LET probe == secondary_supers_at(secondary_supers, base + index(reader.k, s, size))
       IN  IF probe = reader.k THEN ReaderReturn(TRUE)
           ELSE IF probe = NullKlass THEN ReaderReturn(FALSE)
           ELSE reader' = [reader EXCEPT !.pc = next]

\* the probe of the primary slot, lines 159-167
ReaderPrimaryProbe ==
  /\ reader.pc = "l160"
  /\ ReaderProbe(0, reader.primary_seed, reader.primary_table_size,
                 IF seed2size(reader.secondary_seed) > 0 THEN "l168" ELSE "l181")
  /\ ReaderFrame

\* the probe of the second-level slot, lines 168-175
ReaderSecondProbe ==
  /\ reader.pc = "l168"
  /\ ReaderProbe(reader.primary_table_size,
                 IF UseNewCode4 THEN reader.primary_seed ELSE reader.secondary_seed,
                 seed2size(reader.secondary_seed), "l181")
  /\ ReaderFrame

\* return secondary_supers()->contains(k, linear_base_idx);
ReaderTailScan ==
  /\ reader.pc = "l181"
  /\ IF secondary_supers = NullArray THEN ReaderFault
     ELSE ReaderReturn(ArrayContains(secondary_supers, reader.k,
                                     reader.primary_table_size
                                       + seed2size(reader.secondary_seed)))
  /\ ReaderFrame

\* the flags of the runs with a second thread
ConcConfigs ==
  {c \in Configs : /\ c.SecondarySupersTableSizingMode = 1
                   /\ c.SecondarySupersTableMaxSize = 4
                   /\ ~c.UseNewCode2 /\ ~c.UseNewCode4}

InitConc == Init /\ cfg \in ConcConfigs

NextConc ==
  \/ InitializeSupers
  \/ LinearList
  \/ Trial
  \/ EndRound
  \/ FinishFirstLevel
  \/ FinishSecondLevel
  \/ SetSecondarySupersArray
  \/ SetSecondarySupersSeed
  \/ ReaderCall
  \/ ReaderLinear
  \/ ReaderSecondarySeed
  \/ ReaderPrimarySize
  \/ ReaderPrimarySeed
  \/ ReaderPrimaryProbe
  \/ ReaderSecondProbe
  \/ ReaderTailScan

SpecConc == InitConc /\ [][NextConc]_vars

(***************************************************************************)
(* compose_seed32 called on its own                                        *)
(***************************************************************************)
\* 32-bit values to compose seeds from: what get_next_hash returned, and the
\* hash codes of the classes
CodecHashes == RawHashes \cup {hash_code(k) : k \in Klasses}

\* compose_seed32(h32, table_size), for sizes up to one past the largest
ComposeSeed32Call ==
  /\ \E h32 \in CodecHashes, tsize \in 0..(SecondarySupersTableMaxSize + 1) :
       codec' = [h32 |-> h32, table_size |-> tsize, seed |-> compose_seed32(h32, tsize),
                 failure |-> IF ASSERT THEN compose_seed32_check(h32, tsize) ELSE "none"]
  /\ UNCHANGED <<inputs, pc, failure, search, created, fields, query, reader, call, reentries, siblings>>

NextCodec == ComposeSeed32Call

\* the class plays no part in these runs: the one without supers stands for all
InitCodec == Init /\ super_chain = <<>> /\ interfaces = <<>>

SpecCodec == InitCodec /\ [][NextCodec]_vars

(***************************************************************************)
(* Klass::index called on its own                                          *)
(***************************************************************************)
MaxIndexSize == 9

\* mixed hashes to compute slots from: values around 0, 2^31 and 2^32 - 1, whose
\* low bits run through every slot and past it, and values get_hash32 returns
IndexHashes ==
  {<<hi, lo>> : hi \in {0, 32768, 65535},
                lo \in (0..(2 * MaxIndexSize)) \cup ((65535 - MaxIndexSize)..65535)}
    \cup {SeededHash(ComposeSeed32(4, h, 4), k) : h \in RawHashes, k \in Klasses}

\* k->index(seed, table_size) for a class and a seed that get_hash32 mixes to h2
IndexCall ==
  /\ \E h2 \in IndexHashes, tsize \in 1..MaxIndexSize :
       call' = [h2 |-> h2, table_size |-> tsize, index |-> index_of_hash(h2, tsize),
                failure |-> IF ASSERT /\ ~(is_power_of_2(tsize) \/ ~is_power_of_2_sizes_only)
                            THEN "index: is_power_of_2" ELSE "none"]
  /\ UNCHANGED <<inputs, pc, failure, search, created, fields, query, reader, codec, reentries, siblings>>

NextIndex == IndexCall

\* one run per sizing mode and build flavour
InitIndex ==
  /\ InitCodec
  /\ UseSecondarySupersTable /\ SecondarySupersMaxAttempts > 0
  /\ SecondarySupersTableMaxSize = 4 /\ ~UseNewCode

SpecIndex == InitIndex /\ [][NextIndex]_vars

(***************************************************************************)
(* pack_table called on its own, one put_element call per step             *)
(***************************************************************************)
\* pack_table given the secondaries as its first group
PackGroupsSecondariesFirst == <<interfaces, compute_primary_supers(super_chain, interfaces)>>

\* the two groups the first-level search hands to pack_table for this class
PackGroups == <<compute_primary_supers(super_chain, interfaces), interfaces>>

\* pack_table(seed, table_size, primaries, secondaries, table, conflicts) is
\* entered with a seed get_random_seed made for the size and an empty table;
\* the size is one Klass::index accepts in the sizing mode
PackTableCall ==
  /\ call = <<>>
  /\ \E h \in RawHashes, tsize \in 0..SecondarySupersTableMaxSize :
     \E s \in {get_random_seed(h, tsize)} :
       /\ get_random_seed_check(h, tsize) = "none"
       /\ is_power_of_2_sizes_only => tsize = 0 \/ is_power_of_2(tsize)
       /\ call' = [seed |-> s, table_size |-> tsize, group |-> 1, elem_count |-> 0,
                   table |-> EmptyTable(tsize), tail |-> <<>>,
                   fault |-> IF ASSERT /\ seed2size(s) # tsize
                             THEN "pack_table: seed2size" ELSE "none"]
  /\ UNCHANGED <<inputs, pc, failure, search, created, fields, query, reader, codec, reentries, siblings>>

\* one iteration of the loop of the one-group pack_table
PutElementCall ==
  /\ call # <<>>
  /\ call.fault = "none"
  /\ call.group <= 2
  /\ call.elem_count < Len(PackGroups[call.group])
  /\ \E q \in put_element(call.seed, PackGroups[call.group][call.elem_count + 1],
                           call.table, call.tail, call.table_size, call.elem_count) :
       call' = [call EXCEPT !.table = q.table, !.tail = q.tail, !.fault = q.fault,
                            !.elem_count = @ + 1]
  /\ UNCHANGED <<inputs, pc, failure, search, created, fields, query, reader, codec, reentries, siblings>>

\* the one-group pack_table returns: the next group starts at idx 0, and after
\* the second group the two-group pack_table checks the table's length
PackTableReturn ==
  /\ call # <<>>
  /\ call.fault = "none"
  /\ call.group <= 2
  /\ call.elem_count >= Len(PackGroups[call.group])
  /\ call' = [call EXCEPT !.group = @ + 1, !.elem_count = 0,
                          !.fault = IF ASSERT /\ call.group = 2 /\ Len(call.table) # call.table_size
                                    THEN "pack_table: table->length()" ELSE "none"]
  /\ UNCHANGED <<inputs, pc, failure, search, created, fields, query, reader, codec, reentries, siblings>>

NextPack == PackTableCall \/ PutElementCall \/ PackTableReturn

\* the classes whose supers reach the table search, with the default attempt budget
InitPack ==
  /\ Init
  /\ interfaces # NullList
  /\ UseSecondarySupersTable /\ SecondarySupersMaxAttempts > 0
  /\ ~UseNewCode

SpecPack == InitPack /\ [][NextPack]_vars

(***************************************************************************)
(* The first-level search over a ladder of table sizes                     *)
(***************************************************************************)
\* A class with two overflow primaries and three interfaces, all of different
\* hash codes, under a minimum table size of 4: the search starts with 5
\* slots and may go on to 6, 7 and 8.
LadderConfigs ==
  [UseSecondarySupersTable        : {TRUE},
   SecondarySupersTableSizingMode : {0, 8},
   SecondarySupersTableMaxSize    : {9},
   SecondarySupersTableMinSize    : {4},
   SecondarySupersMaxAttempts     : {2},
   UseNewCode                     : {FALSE},
   UseNewCode2                    : {FALSE},
   UseNewCode4                    : {FALSE},
   ASSERT                         : BOOLEAN]

InitLadder ==
  /\ cfg \in LadderConfigs
  /\ super_chain = <<ChainKlass(1), ChainKlass(2)>>
  /\ interfaces = <<InterfaceKlass(1), InterfaceKlass(2), InterfaceKlass(4)>>
  /\ Constructed
  /\ Unlinked

NextLadder ==
  \/ InitializeSupers
  \/ Trial
  \/ EndRound
  \/ FinishFirstLevel
  \/ SetSecondarySupersArray
  \/ SetSecondarySupersSeed

SpecLadder == InitLadder /\ [][NextLadder]_vars

(***************************************************************************)
(* Properties                                                              *)
(***************************************************************************)
\* the published seed, decoded as the lookup decodes it
PrimarySize == secondary_supers_table_size(secondary_supers_seed)

SecondSize == seed2size(secondary_supers_seed.hi)

PrimaryProbe(k) ==
  secondary_supers_at(secondary_supers, index(k, secondary_supers_seed.lo, PrimarySize))

SecondProbe(k) ==
  secondary_supers_at(secondary_supers,
                      PrimarySize + index(k, IF UseNewCode4 THEN secondary_supers_seed.lo
                                             ELSE secondary_supers_seed.hi, SecondSize))

\* C1. Placement correctness: once initialize_supers has returned, the lookup
\* returns true for every candidate (overflow primary or secondary) of the class,
\* in every sizing mode, with or without a second-level zone.
PlacementCorrectness ==
  pc = "done" => \A S \in Candidates : LookupCheck(S) = "none" /\ Lookup(S)

\* C2. Negative correctness: once initialize_supers has returned, the lookup
\* returns false for every class that is neither the class itself nor one of its
\* candidates.
NegativeCorrectness ==
  pc = "done" =>
    \A X \in Klasses \ (Candidates \cup {This}) : LookupCheck(X) = "none" /\ ~Lookup(X)

\* a query for a class that is no supertype, answered false by the tail scan
\* after an occupied primary slot and an occupied second-level slot
NegativeAnsweredByTailScan ==
  /\ pc = "done" /\ query # <<>>
  /\ query[1] \notin Candidates \cup {This}
  /\ query[2] = FALSE
  /\ PrimarySize > 0 /\ PrimaryProbe(query[1]) # NullKlass
  /\ SecondSize > 0 /\ SecondProbe(query[1]) # NullKlass
  /\ Len(secondary_supers) > PrimarySize + SecondSize

\* C3. Identity short-circuit: the lookup of the class itself returns true in
\* every state, and the class is no entry of its own storage.
IdentityShortCircuit ==
  /\ LookupCheck(This) = "none" /\ Lookup(This)
  /\ \A i \in 1..Len(secondary_supers) : secondary_supers[i].klass # This

\* the class asked for itself, with a table published that holds other classes
IdentityQueried ==
  /\ pc = "done" /\ query # <<>> /\ query[1] = This /\ query[2] = TRUE
  /\ PrimarySize > 0 /\ Len(secondary_supers) > PrimarySize

\* the zone of position i (from 0) of the published storage, by the sizes the
\* published seed decodes to
Zone(i) ==
  IF i < PrimarySize THEN 1 ELSE IF i < PrimarySize + SecondSize THEN 2 ELSE 3

\* the tags an entry can carry in a zone: residents of the primary zone 01 or
\* 11, of the second-level zone 10 or 11, empty slots and tail entries none
ZoneTags(zone, klass) ==
  IF zone = 3 \/ klass = NullKlass THEN {0}
  ELSE IF zone = 1 THEN {1, 3} ELSE {2, 3}

Positions(k) == {i \in 0..(Len(secondary_supers) - 1) : secondary_supers_at(secondary_supers, i) = k}

\* C5. Exactly-once storage: after a build every candidate is in the persisted
\* storage exactly once, in one zone and tagged as an entry of that zone; no
\* other class is in it; the tail holds no empty entry, so that the length of the
\* storage is the two zone sizes plus the number of tail entries.
ExactlyOnceStorage ==
  pc = "done" =>
    /\ \A c \in Candidates : Cardinality(Positions(c)) = 1
    /\ \A i \in 0..(Len(secondary_supers) - 1) :
         /\ secondary_supers_at(secondary_supers, i) \in Candidates \cup {NullKlass}
         /\ secondary_supers[i + 1].tag
              \in ZoneTags(Zone(i), secondary_supers_at(secondary_supers, i))
         /\ Zone(i) = 3 => secondary_supers_at(secondary_supers, i) # NullKlass
    /\ Len(secondary_supers) >= PrimarySize + SecondSize

\* a trial of the current round has been packed into table and tail
TrialPacked == pc = "attempt" /\ attempt > 0

\* the tables the build persisted and the seeds of their slots
BuiltPrimaryTable == IF SecondLevel THEN primary_table ELSE best_table

BuiltSecondTable == IF SecondLevel THEN best_table ELSE <<>>

NaturalSlots(tb, s) ==
  \A i \in 1..Len(tb) : tb[i] # NullKlass => index(tb[i], s, Len(tb)) = i - 1

\* C6. Natural-slot invariant: every resident of a packed trial table and of a
\* persisted slot zone is at the slot index computes for it from the zone's seed
\* and size (for the second-level zone the primary seed under UseNewCode4), and
\* verify_on does not report "misplaced" for the published storage.
NaturalSlot ==
  /\ TrialPacked => NaturalSlots(table, seed)
  /\ pc \in {"set1", "set2", "done"} /\ UseSecondarySupersTable /\ SecondarySupersMaxAttempts > 0
       /\ interfaces # NullList =>
       /\ Len(ss_table) >= Len(BuiltPrimaryTable) + Len(BuiltSecondTable)
       /\ NaturalSlots([i \in 1..Len(BuiltPrimaryTable) |-> ss_table[i].klass], seed1)
       /\ NaturalSlots([i \in 1..Len(BuiltSecondTable) |->
                          ss_table[Len(BuiltPrimaryTable) + i].klass],
                       IF UseNewCode4 THEN seed1 ELSE seed2)
  /\ pc = "done" => verify_on(secondary_supers, secondary_supers_seed) # "misplaced"

Residents(tb) == {i \in 1..Len(tb) : tb[i] # NullKlass}

SeqRange(seq) == {seq[i] : i \in 1..Len(seq)}

\* C7. Coverage of pack: after pack_table the residents of the table and the
\* entries of the tail are the input elements, each once: one group (second
\* level) or two groups (primaries, then secondaries).
CoverageOfPack ==
  TrialPacked =>
    /\ Cardinality(Residents(table)) + Len(tail) = Len(primaries) + Len(secondaries)
    /\ (SeqRange(table) \ {NullKlass}) \cup SeqRange(tail)
         = SeqRange(primaries) \cup SeqRange(secondaries)

\* C8. Degenerate size: when the published seed decodes to a primary table size
\* of 0, it decodes to a second-level size of 0 and the table search answers as
\* the linear scan of the whole storage does, which is membership in it.
DegenerateSize ==
  pc = "done" /\ UseSecondarySupersTable /\ PrimarySize = 0 =>
    /\ SecondSize = 0
    /\ \A k \in Klasses :
         /\ search_secondary_supers_table_check(secondary_supers, secondary_supers_seed, k) = "none"
         /\ search_secondary_supers_table(secondary_supers, secondary_supers_seed, k)
              = (k \in {secondary_supers[i].klass : i \in 1..Len(secondary_supers)})

\* a storage of two entries or more published with the table-less seed, and a
\* class found in it
DegenerateQueried ==
  /\ pc = "done" /\ UseSecondarySupersTable /\ PrimarySize = 0
  /\ Len(secondary_supers) >= 2
  /\ query # <<>> /\ query[1] # This /\ query[2] = TRUE

PublishOrdering ==
  pc = "done" /\ reader.pc = "returned" => reader.result = Lookup(reader.k)

\* C10. Seed codec round trip: for a table size n with 0 < n <= MaxSize the
\* composed seed decodes to the size n and the mask round_up_power_of_2(n) - 1,
\* for n == 0 and a hash of 0 or 0xFFFFFFFF to the size 0 and the mask 0, without
\* a failing assert; the bits of the hash above the two fields are those of the
\* seed.
SeedCodecRoundTrip ==
  codec # <<>> =>
    LET h == codec.h32
        n == codec.table_size
        s == codec.seed
    IN  /\ (0 < n /\ n <= SecondarySupersTableMaxSize =>
              /\ codec.failure = "none"
              /\ seed2size(s) = n
              /\ seed2mask(s) = round_up_power_of_2(n) - 1)
        /\ (n = 0 /\ h \in {U32Zero, U32Ones} =>
              codec.failure = "none" /\ seed2size(s) = 0 /\ seed2mask(s) = 0)
        /\ (n <= SecondarySupersTableMaxSize =>
              U32Shr(s, 2 * size_shift) = U32Shr(h, 2 * size_shift))

\* a seed of the largest size composed from a hash with bits in both fields
\* that the fields replace
SeedComposed ==
  /\ codec # <<>>
  /\ codec.table_size = SecondarySupersTableMaxSize
  /\ seed2size(codec.h32) # codec.table_size
  /\ seed2mask(codec.h32) \notin {0, SecondarySupersTableMaxSize - 1}
  /\ U32Shr(codec.h32, 2 * size_shift) # U32Zero

\* C11. Slot index range: for a table size above 0 (a power of two under the
\* power-of-two mask strategy) Klass::index returns a slot in [0, table_size),
\* under each of the three strategies, and no assert of it on the size fails.
IndexInRange ==
  call # <<>> /\ (is_power_of_2_sizes_only => is_power_of_2(call.table_size)) =>
    /\ call.failure = "none"
    /\ call.index \in 0..(call.table_size - 1)

\* a slot of a table whose size is no power of two, computed by the masked
\* round-up difference from a hash whose masked bits are below the size, so
\* that the difference wrapped around
IndexWrapped ==
  /\ call # <<>>
  /\ ~is_power_of_2_sizes_only /\ ~mod_rounding_mode
  /\ ~is_power_of_2(call.table_size)
  /\ And16(call.h2[2], round_up_power_of_2(call.table_size) - 1) < call.table_size
  /\ call.h2[1] = 65535
  /\ call.index > 0

\* C12. Search termination: the table search of either level, once entered,
\* is left after finitely many trials, whatever seeds are drawn.
SearchTerminates == (pc = "attempt") ~> (pc # "attempt")

\* C13. Build once: a class that has its storage keeps the array and the seed
\* through every later step, a call of initialize_supers on it included, which
\* returns without running a builder; the array is only ever stored over
\* nullptr, and the seed only by the set_secondary_supers call that stored the
\* array.
BuildOnce ==
  [][/\ (pc = "done" => pc' = "done" /\ UNCHANGED <<secondary_supers, secondary_supers_seed>>)
     /\ (secondary_supers' # secondary_supers => secondary_supers = NullArray)
     /\ (secondary_supers_seed' # secondary_supers_seed => pc = "set2")]_vars

\* initialize_supers has been called again on a class with a table of two
\* zones
CalledAgain ==
  /\ reentries > 0 /\ pc = "done"
  /\ PrimarySize > 0 /\ SecondSize > 0

\* C14. Allocation failure: when the allocation of the storage array failed,
\* in create_secondary_supers_table or in the path without a table, the build has
\* ended with the failure pending and nothing is published: no array was
\* created, secondary_supers is null and the seed is the initial one.
AllocationFailure ==
  pc = "oom" =>
    /\ failure = "none"
    /\ ss_table = NullArray
    /\ secondary_supers = NullArray
    /\ secondary_supers_seed = Seed64(U32Zero, U32Zero)

\* the allocation failed for a second-level table that the search had filled
AllocationFailed ==
  /\ pc = "oom" /\ SecondLevel
  /\ \E i \in 1..Len(best_table) : best_table[i] # NullKlass
  /\ best_seed # U32Zero


\* the element the next put_element call of a pack_table run is given
PackElement == PackGroups[call.group][call.elem_count + 1]

\* a put_element call has just returned normally
PutElementReturned ==
  /\ call # <<>> /\ call' # call
  /\ call.group <= 2 /\ call'.group = call.group
  /\ call'.fault = "none"

\* C15: first-come-first-served slot ownership: a put_element call leaves every
\* filled slot as it was; an element whose natural slot is occupied is appended
\* to the tail and the table is left alone; the tail only grows at its end, by
\* the element of the call, so it keeps the input order
FirstComeFirstServed ==
  [][PutElementReturned =>
       /\ \A i \in 1..call.table_size :
            call.table[i] # NullKlass => call'.table[i] = call.table[i]
       /\ call.table_size > 0
            /\ call.table[index(PackElement, call.seed, call.table_size) + 1] # NullKlass
            => call'.tail = Append(call.tail, PackElement) /\ call'.table = call.table
       /\ call'.tail \in {call.tail, Append(call.tail, PackElement)}]_vars

\* a pack_table run in which two elements lost their slot to earlier ones
LateArrivalsInTail ==
  /\ call # <<>>
  /\ call.table_size > 0
  /\ Len(call.tail) >= 2
  /\ \A j \in 1..Len(call.tail) :
       call.table[index(call.tail[j], call.seed, call.table_size) + 1]
         \notin {NullKlass, call.tail[j]}

\* the overflow primaries of the class, and the classes a pack_table run has
\* put into the table or the tail so far
IsPrimary(k) == Contains(compute_primary_supers(super_chain, interfaces), k)

PackedKlasses == (SeqRange(call.table) \cup SeqRange(call.tail)) \ {NullKlass}

PackSlot(k) == index(k, call.seed, call.table_size)

\* no secondary is packed before every overflow primary is
PrimariesPlacedFirst ==
  (\E k \in PackedKlasses : ~IsPrimary(k))
    => \A k \in Klasses : IsPrimary(k) => k \in PackedKlasses

\* a slot that is natural for a packed primary and for a packed secondary holds a primary
PrimaryIsResident ==
  call.table_size > 0 =>
    \A p, k \in PackedKlasses :
      IsPrimary(p) /\ ~IsPrimary(k) /\ PackSlot(p) = PackSlot(k)
        => IsPrimary(call.table[PackSlot(p) + 1])

\* the primaries in the tail lost their natural slot to another primary
PrimaryLostToPrimary ==
  \A j \in 1..Len(call.tail) :
    IsPrimary(call.tail[j])
      => /\ call.table_size > 0
         /\ IsPrimary(call.table[PackSlot(call.tail[j]) + 1])
         /\ call.table[PackSlot(call.tail[j]) + 1] # call.tail[j]

Packed(g) ==
  IF call.group > g THEN PackGroups[g]
  ELSE IF call.group = g THEN SubSeq(PackGroups[g], 1, call.elem_count)
  ELSE <<>>

\* C17: table-less packing: with table_size == 0 pack_table fails no check of
\* put_element, places no element in a slot and appends every element of both
\* groups to the tail in input order, primaries first
TableLessPacking ==
  call # <<>> /\ call.table_size = 0 =>
    /\ call.fault = "none"
    /\ call.table = <<>>
    /\ call.tail = Packed(1) \o Packed(2)

\* the classes of a persisted array, without their tags
KlassesOf(arr) == [i \in 1..Len(arr) |-> arr[i].klass]

TrialScore ==
  IF mode <= 0 THEN compute_weight(seed, table, tail) ELSE Score(Len(tail), 1)

\* best_score before the first trial of a search
InitialScore ==
  IF mode = 1 THEN Score(2 * NumOfSecondaries, 1) ELSE Score(NumOfSecondaries + 1 + 2, 1)

\* a < b on scores, as fractions
Below(a, b) == a[1] * b[2] < b[1] * a[2]

TableEqualsLinear ==
  pc = "done" /\ UseSecondarySupersTable =>
    \A k \in Klasses :
      /\ search_secondary_supers_table_check(secondary_supers, secondary_supers_seed, k) = "none"
      /\ search_secondary_supers_table(secondary_supers, secondary_supers_seed, k)
           = search_secondary_supers_linear(secondary_supers, k)

\* the positions (from 0) of the tail of the published storage
TailPositions == (PrimarySize + SecondSize)..(Len(secondary_supers) - 1)

\* the tag create_secondary_supers_table gives the resident of slot i of a zone:
\* both bits if the slot is natural for a tail entry, the bit of the zone if not
ResidentTag(zone_bit, s, size, i) ==
  IF \E j \in TailPositions : index(secondary_supers_at(secondary_supers, j), s, size) = i
  THEN 3 ELSE zone_bit

\* C21: conflict tags: in the published storage an empty slot carries 00; a
\* resident of the primary zone 11 if a tail entry has the slot as its natural
\* primary slot and 01 otherwise; a resident of the second-level zone 11 if a
\* tail entry has the slot as its natural second-level slot and 10 otherwise; a
\* tail entry carries no tag
ConflictTags ==
  pc = "done" =>
    /\ Len(secondary_supers) >= PrimarySize + SecondSize
    /\ \A i \in 0..(Len(secondary_supers) - 1) :
         secondary_supers[i + 1].tag =
           IF Zone(i) = 3 \/ secondary_supers_at(secondary_supers, i) = NullKlass THEN 0
           ELSE IF Zone(i) = 1
                THEN ResidentTag(1, secondary_supers_seed.lo, PrimarySize, i)
                ELSE ResidentTag(2, IF UseNewCode4 THEN secondary_supers_seed.lo
                                    ELSE secondary_supers_seed.hi,
                                 SecondSize, i - PrimarySize)

\* C22: tail entries are genuine conflicts: in the published storage with a
\* non-empty primary zone every entry outside the primary zone has its natural
\* primary slot occupied by another class, and every tail entry has its natural
\* second-level slot occupied by another class when there is a second-level
\* zone; compute_conflicts never fails "no conflict detected" and the checks
\* verify_on makes on the tail never fail
GenuineConflicts ==
  /\ failure # "compute_conflicts: no conflict detected"
  /\ pc = "done" /\ PrimarySize > 0 =>
       /\ Len(secondary_supers) >= PrimarySize + SecondSize
       /\ \A i \in PrimarySize..(Len(secondary_supers) - 1) :
            secondary_supers_at(secondary_supers, i) # NullKlass =>
              PrimaryProbe(secondary_supers_at(secondary_supers, i))
                \notin {NullKlass, secondary_supers_at(secondary_supers, i)}
       /\ SecondSize > 0 =>
            \A i \in TailPositions :
              secondary_supers_at(secondary_supers, i) # NullKlass =>
                SecondProbe(secondary_supers_at(secondary_supers, i))
                  \notin {NullKlass, secondary_supers_at(secondary_supers, i)}
       /\ verify_on(secondary_supers, secondary_supers_seed)
            \notin {"verify_on: no tags in the tail", "verify_on: k != nullptr",
                    "verify_on: missing conflict tag"}

\* C23: maximum table size: the table size of every trial of either search and
\* the size of every zone handed on to be persisted is at most
\* SecondarySupersTableMaxSize; get_random_seed's assertion on the size and the
\* assertion "no resizing allowed" on best_table never fail
MaximumTableSize ==
  /\ pc = "attempt" => table_size <= SecondarySupersTableMaxSize
  /\ TrialPacked => Len(table) <= SecondarySupersTableMaxSize
  /\ pc \in {"attempt", "finish"} =>
       /\ Len(best_table) <= SecondarySupersTableMaxSize
       /\ Len(primary_table) <= SecondarySupersTableMaxSize
  /\ failure \notin {"get_random_seed: table_size <= MaxSize",
                     "initialize_secondary_supers_table: no resizing allowed"}

\* the number of candidates of the class: overflow primaries plus secondaries
NumCandidates ==
  IF interfaces = NullList THEN 0
  ELSE Len(compute_primary_supers(super_chain, interfaces)) + Len(interfaces)

\* C24: minimum size threshold: the build of a class with fewer candidates than
\* SecondarySupersTableMinSize fails no check, and what it publishes is
\* tail-only: both zone sizes are 0, the low 32 bits of the seed are 0, and the
\* storage is the candidates, each once and untagged
MinimumSizeThreshold ==
  NumCandidates < SecondarySupersTableMinSize =>
    /\ failure = "none"
    /\ pc = "done" =>
         /\ PrimarySize = 0 /\ SecondSize = 0
         /\ secondary_supers_seed.lo = U32Zero
         /\ Len(secondary_supers) = NumCandidates
         /\ \A i \in 1..Len(secondary_supers) : secondary_supers[i].tag = 0
         /\ {secondary_supers[i].klass : i \in 1..Len(secondary_supers)} = Candidates

\* C25: second-level zone condition: the second-level search runs only with
\* UseNewCode, a non-empty first-level table and a first-level tail of at least
\* SecondarySupersTableMinSize entries, and without it the second-level size is
\* 0; in the published storage a second-level size > 0 comes with a primary
\* size > 0, and the second-level zone holds only classes of the first-level tail
SecondLevelZoneCondition ==
  /\ SecondLevel =>
       /\ UseNewCode
       /\ Len(primary_table) > 0
       /\ Len(secondaries) >= SecondarySupersTableMinSize
  /\ pc \in {"set1", "set2", "done"} /\ ~SecondLevel => seed2size(seed2) = 0
  /\ pc = "done" =>
       /\ ~SecondLevel => SecondSize = 0
       /\ SecondSize > 0 =>
            /\ PrimarySize > 0
            /\ Len(secondary_supers) >= PrimarySize + SecondSize
            /\ \A i \in PrimarySize..(PrimarySize + SecondSize - 1) :
                 secondary_supers_at(secondary_supers, i) \in SeqRange(secondaries) \cup {NullKlass}

\* a published storage with a resident in its second-level zone
SecondLevelZonePublished ==
  /\ pc = "done" /\ SecondLevel
  /\ PrimarySize > 0 /\ SecondSize > 0
  /\ PrimarySize = Len(primary_table) /\ SecondSize = Len(best_table)
  /\ Len(secondary_supers) >= PrimarySize + SecondSize
  /\ \E i \in PrimarySize..(PrimarySize + SecondSize - 1) :
       secondary_supers_at(secondary_supers, i) # NullKlass


\* the checks of Klass::index, which put_element reaches only after its own
IndexChecks ==
  {"none", "index: table_size > 0", "index: is_power_of_2", "index: seed2size",
   "index: seed2mask"}

\* the next put_element of the pack_table run calls Klass::index: slots are
\* left for the element and no assertion of put_element stops the call first
IndexCallPending ==
  /\ call # <<>> /\ call.fault = "none"
  /\ call.group <= 2 /\ call.elem_count < Len(PackGroups[call.group])
  /\ Len(call.tail) + call.table_size - call.elem_count > 0
  /\ ASSERT => put_element_check(call.seed, PackElement, call.table, call.tail,
                                 call.table_size, call.elem_count) \in IndexChecks

\* C26: the empty table is special-cased by every caller: Klass::index is
\* never called with table_size == 0, so its assertion table_size > 0 holds
\* on every call that put_element makes while packing
EmptyTableSpecialCased ==
  IndexCallPending => call.table_size > 0


\* compute_weight1's count: the table slots that are the natural slot of some
\* tail element
ConflictSlots(s, tb, tl) ==
  Cardinality({i \in 1..Len(tb) : compute_conflicts(s, tb, tl)[i] > 0})

\* the trial just packed and the best packing kept so far have tables of one
\* size with as many residents and as many tail elements, and differ in the
\* fraction of slots that are the natural slot of a tail element
SameDensityOtherConflicts ==
  /\ TrialPacked /\ mode <= 0
  /\ Len(table) > 0 /\ Len(best_table) = Len(table)
  /\ nz_count(best_table) = nz_count(table) /\ Len(best_tail) = Len(tail)
  /\ ConflictSlots(seed, table, tail) # ConflictSlots(best_seed, best_table, best_tail)

\* C27: the score takes conflicts into account: of two packings with a
\* non-empty table that agree in packing density and in the ratio of table
\* size to element count, compute_weight gives different scores to the two
\* when they differ in the fraction of slots that are the natural slot of
\* some tail element
ScoreTakesConflicts ==
  SameDensityOtherConflicts =>
    \/ ScoreLess(compute_weight(seed, table, tail),
                 compute_weight(best_seed, best_table, best_tail))
    \/ ScoreLess(compute_weight(best_seed, best_table, best_tail),
                 compute_weight(seed, table, tail))


\* C28: the candidate set has no duplicates: compute_primary_supers returns
\* the overflow ancestors of the superclass chain, in chain order and each
\* once, without those the secondaries list contains; primaries and
\* secondaries are disjoint, and no "duplicate" assertion of put_element fails
CandidateSetNoDuplicates ==
  /\ pc # "start" /\ interfaces # NullList /\ mode = -1 =>
       /\ SeqRange(primaries) = SeqRange(super_chain) \ SeqRange(interfaces)
       /\ \A i, j \in 1..Len(primaries) : i < j =>
            \E a, b \in 1..Len(super_chain) :
              a < b /\ super_chain[a] = primaries[i] /\ super_chain[b] = primaries[j]
       /\ secondaries = interfaces
  /\ SeqRange(primaries) \cap SeqRange(secondaries) = {}
  /\ failure \notin {"put_element: duplicate", "put_element: duplicated"}

\* a trial packed, with no assertion failing, the candidates of a class whose
\* secondaries list holds its first overflow ancestor: both ancestors are
\* residents and the second ancestor is the only primary
OverflowDuplicateDropped ==
  /\ TrialPacked /\ mode = -1 /\ failure = "none" /\ ASSERT
  /\ Len(super_chain) = 2 /\ Contains(interfaces, super_chain[1])
  /\ primaries = <<super_chain[2]>>
  /\ Contains(table, super_chain[1]) /\ Contains(table, super_chain[2])


\* the attempts at the current table size are used up and the search is about
\* to call resize_table for the next size
ResizePending ==
  /\ pc = "attempt" /\ ~InAttemptLoop
  /\ is_in_progress /\ table_size > SecondarySupersTableMinSize
  /\ SecondLevel => mode = 0

\* C29: resize_table precondition: the search calls resize_table only with
\* table_size < SecondarySupersTableMaxSize, also when the number of
\* candidates capped the initial size to the maximum
ResizeTablePrecondition ==
  /\ ResizePending => table_size < SecondarySupersTableMaxSize
  /\ failure # "resize_table: table_size < MaxSize"


(***************************************************************************)
(* The subklass list: append_to_sibling_list, clean_subklass               *)
(***************************************************************************)
MaxSiblings == 3   \* most subclasses the superclass has before this is appended
NumCleaners == 2   \* threads that run clean_subklass on the superclass

\* the thread that appends this (it holds the Compile_lock) and the cleaners
Appender == 0
Cleaners == 1..NumCleaners
Threads  == {Appender} \cup Cleaners

\* the flags play no part here; the two build flavours remain
SiblingConfigs ==
  {c \in Configs : /\ ~c.UseSecondarySupersTable
                   /\ c.SecondarySupersMaxAttempts = 2}

\* the classes of the list: this and the subclasses the superclass has
Linked == DOMAIN loader_alive

is_loader_alive(k) == loader_alive[k]

\* the loop of Klass::subklass and of Klass::next_sibling: the first class from
\* chain on, along _next_sibling, whose loader is alive
RECURSIVE first_alive(_)
first_alive(chain) ==
  IF chain = NullKlass THEN NullKlass
  ELSE IF is_loader_alive(chain) THEN chain
  ELSE first_alive(_next_sibling[chain])

next_sibling(k) == first_alive(_next_sibling[k])

\* Before this is appended the superclass has n subclasses, linked in the
\* order they were appended in; the loaders of some may have died since the
\* list was cleaned last. The loader of this is alive and its _next_sibling is
\* null. Liveness does not change while the appender is in the VM.
InitSiblings ==
  /\ cfg \in SiblingConfigs
  /\ super_chain = <<>> /\ interfaces = NullList
  /\ Constructed
  /\ \E n \in 0..MaxSiblings :
       /\ _subklass = (IF n = 0 THEN NullKlass ELSE This + 1)
       /\ _next_sibling = [k \in This..(This + n) |->
                             IF This < k /\ k < This + n THEN k + 1 ELSE NullKlass]
       /\ loader_alive \in {a \in [This..(This + n) -> BOOLEAN] : a[This]}
  /\ thread = [t \in Threads |-> [pc |-> "clean_subklass", subklass |-> NullKlass]]

\* clean_subklass: Klass* subklass = Atomic::load_acquire(&_subklass), and
\* the return if it is null or alive. The appender calls it first of all.
CleanSubklassLoad ==
  /\ \E t \in DOMAIN thread :
       /\ thread[t].pc = "clean_subklass"
       /\ IF _subklass = NullKlass \/ is_loader_alive(_subklass)
          THEN thread' = [thread EXCEPT ![t].pc = IF t = Appender THEN "load" ELSE "returned"]
          ELSE thread' = [thread EXCEPT ![t].pc = "clean_cmpxchg", ![t].subklass = _subklass]
  /\ UNCHANGED <<inputs, pc, failure, search, created, fields, query, reader, codec, call,
                 reentries, _subklass, _next_sibling, loader_alive>>

\* clean_subklass with a plain store in the place of the cmpxchg
CleanSubklassStore ==
  /\ \E t \in DOMAIN thread :
       /\ thread[t].pc = "clean_cmpxchg"
       /\ _subklass' = next_sibling(thread[t].subklass)
       /\ thread' = [thread EXCEPT ![t].pc = "clean_subklass"]
  /\ UNCHANGED <<inputs, pc, failure, search, created, fields, query, reader, codec, call,
                 reentries, _next_sibling, loader_alive>>

\* clean_subklass: Atomic::cmpxchg(&_subklass, subklass, subklass->next_sibling()),
\* then the loop starts over
CleanSubklassCmpxchg ==
  /\ \E t \in DOMAIN thread :
       /\ thread[t].pc = "clean_cmpxchg"
       /\ _subklass' = IF _subklass = thread[t].subklass
                       THEN next_sibling(thread[t].subklass) ELSE _subklass
       /\ thread' = [thread EXCEPT ![t].pc = "clean_subklass"]
  /\ UNCHANGED <<inputs, pc, failure, search, created, fields, query, reader, codec, call,
                 reentries, _next_sibling, loader_alive>>

\* append_to_sibling_list: prev_first_subklass = Atomic::load_acquire(&_super->_subklass)
\* and the assert on it
AppendLoad ==
  /\ thread # <<>> /\ thread[Appender].pc = "load"
  /\ IF _subklass # NullKlass /\ ASSERT /\ ~is_loader_alive(_subklass)
     THEN /\ failure' = "append_to_sibling_list: May not attach not alive klasses"
          /\ thread' = [thread EXCEPT ![Appender].pc = "abort"]
     ELSE /\ failure' = failure
          /\ thread' = [thread EXCEPT
               ![Appender].pc = IF _subklass # NullKlass THEN "set_next_sibling" ELSE "cmpxchg",
               ![Appender].subklass = _subklass]
  /\ UNCHANGED <<inputs, pc, search, created, fields, query, reader, codec, call,
                 reentries, _subklass, _next_sibling, loader_alive>>

\* append_to_sibling_list: set_next_sibling(prev_first_subklass)
AppendSetNextSibling ==
  /\ thread # <<>> /\ thread[Appender].pc = "set_next_sibling"
  /\ _next_sibling' = [_next_sibling EXCEPT ![This] = thread[Appender].subklass]
  /\ thread' = [thread EXCEPT ![Appender].pc = "cmpxchg"]
  /\ UNCHANGED <<inputs, pc, failure, search, created, fields, query, reader, codec, call,
                 reentries, _subklass, loader_alive>>

\* append_to_sibling_list: Atomic::cmpxchg(&super->_subklass, prev_first_subklass, this),
\* the return when it succeeds and the next round of the loop when it does not
AppendCmpxchg ==
  /\ thread # <<>> /\ thread[Appender].pc = "cmpxchg"
  /\ IF _subklass = thread[Appender].subklass
     THEN /\ _subklass' = This
          /\ thread' = [thread EXCEPT ![Appender].pc = "returned"]
     ELSE /\ _subklass' = _subklass
          /\ thread' = [thread EXCEPT ![Appender].pc = "load"]
  /\ UNCHANGED <<inputs, pc, failure, search, created, fields, query, reader, codec, call,
                 reentries, _next_sibling, loader_alive>>

NextSiblings ==
  \/ CleanSubklassLoad
  \/ CleanSubklassCmpxchg
  \/ AppendLoad
  \/ AppendSetNextSibling
  \/ AppendCmpxchg

SpecSiblings == InitSiblings /\ [][NextSiblings]_vars

\* the classes on the subklass chain of the superclass, from chain on
RECURSIVE OnChain(_)
OnChain(chain) ==
  IF chain = NullKlass THEN {} ELSE {chain} \cup OnChain(_next_sibling[chain])

\* C30: lock-free sibling list: under every interleaving of
\* append_to_sibling_list with concurrent clean_subklass on the superclass,
\* the appended class is on the subklass chain once append_to_sibling_list
\* returned, every class with a live loader that was on the chain stays on
\* it, and _next_sibling of the appended class is only set to a class whose
\* loader was alive when it was read as the head
LockFreeSiblingList ==
  /\ thread # <<>> /\ thread[Appender].pc = "returned" => This \in OnChain(_subklass)
  /\ \A k \in Linked \ {This} : is_loader_alive(k) => k \in OnChain(_subklass)
  /\ This \in Linked /\ _next_sibling[This] # NullKlass => is_loader_alive(_next_sibling[This])
  /\ failure # "append_to_sibling_list: May not attach not alive klasses"

\* this was appended in front of a live sibling, after the dead head of the
\* list was unlinked, while a cleaner that had read the dead head too ran its
\* cmpxchg as well
AppendedWhileCleaned ==
  /\ thread # <<>> /\ thread[Appender].pc = "returned"
  /\ _subklass = This /\ _next_sibling[This] > This + 1
  /\ ~is_loader_alive(This + 1)
  /\ \E t \in Cleaners : thread[t].pc = "returned" /\ thread[t].subklass = This + 1
============================================================================
